---- MODULE Spec2Model ----
(***************************************************************************)
(* Model of the recommender actions of the KI-Campus chatbot               *)
(* (rasa/KI-Campus_de/actions/actions_recommender.py).                     *)
(*                                                                         *)
(* One turn of the host runtime is two steps: an action's run() is called  *)
(* on the tracker (pc "idle" -> "ran"; it fills the dispatcher and returns *)
(* events, or raises), then the runtime applies the returned events to the *)
(* tracker (pc "ran" -> "idle").  The tracker is not changed inside run(). *)
(***************************************************************************)
EXTENDS Integers, Sequences, FiniteSets, TLC

VARIABLES
    slots,          \* tracker slots: slot name -> Python value
    latest_intent,  \* tracker.get_intent_of_latest_message()
    followup,       \* action forced next by a FollowupAction event, or NoFollowup
    pc,             \* "idle": waiting for an action call; "ran": run() has returned
    action,         \* name() of the action that ran last
    r,              \* the HTTP response the action received (NoReply if it made no call)
    request,        \* the HTTP requests the action sent during run()
    slot_value,     \* the raw value handed to a validate_<slot> method
    buttons,        \* the local list `buttons` at the end of an ask action's run()
    messages,       \* what the dispatcher collected during run()
    events,         \* the list run() returned
    raised,         \* TRUE when run() ended by an uncaught exception
    retrieved,      \* history: the response list of the last successful retrieval
    more_turns      \* history: "show more" calls since the last retrieval

vars == <<slots, latest_intent, followup, pc, action, r, request, slot_value,
          buttons, messages, events, raised, retrieved, more_turns>>

-----------------------------------------------------------------------------
(* Bounds of the model *)

MaxRecs == 7

MaxMore == 4

MaxCount == 1

MaxAbsent == 1

\* the longest list of enrolled courses the profile service answers with
MaxEnrolled == 2

-----------------------------------------------------------------------------
(* Python values: None, str and list are kept apart by a tag *)

PyNone == [t |-> "None"]

PyStr(s) == [t |-> "str", v |-> s]

PyList(l) == [t |-> "list", v |-> l]

PyBytes(s) == [t |-> "bytes", v |-> s]

PyDict(d) == [t |-> "dict", v |-> d]

Truthy(x) ==
    CASE x.t = "None"  -> FALSE
      [] x.t = "str"   -> x.v # ""
      [] x.t = "bytes" -> x.v # ""
      [] x.t = "list"  -> Len(x.v) > 0
      [] x.t = "dict"  -> TRUE

Str(x) ==
    CASE x.t = "None"  -> "None"
      [] x.t = "bytes" -> "b'" \o x.v \o "'"
      [] OTHER         -> x.v

Min(a, b) == IF a < b THEN a ELSE b

-----------------------------------------------------------------------------
(* Strings *)

UpperChars == "ABCDEFGHIJKLMNOPQRSTUVWXYZÄÖÜ"

LowerChars == "abcdefghijklmnopqrstuvwxyzäöü"

LowerChar(c) ==
    IF \E i \in 1..Len(UpperChars) : SubSeq(UpperChars, i, i) = c
    THEN SubSeq(LowerChars,
                CHOOSE i \in 1..Len(UpperChars) : SubSeq(UpperChars, i, i) = c,
                CHOOSE i \in 1..Len(UpperChars) : SubSeq(UpperChars, i, i) = c)
    ELSE c

RECURSIVE Lower(_)
Lower(s) ==
    IF Len(s) = 0 THEN ""
    ELSE LowerChar(SubSeq(s, 1, 1)) \o Lower(SubSeq(s, 2, Len(s)))

UpperChar(c) ==
    IF \E i \in 1..Len(LowerChars) : SubSeq(LowerChars, i, i) = c
    THEN SubSeq(UpperChars,
                CHOOSE i \in 1..Len(LowerChars) : SubSeq(LowerChars, i, i) = c,
                CHOOSE i \in 1..Len(LowerChars) : SubSeq(LowerChars, i, i) = c)
    ELSE c

Capitalize(s) ==
    IF Len(s) = 0 THEN ""
    ELSE UpperChar(SubSeq(s, 1, 1)) \o Lower(SubSeq(s, 2, Len(s)))

Contains(sub, s) ==
    \E i \in 1..(Len(s) - Len(sub) + 1) : SubSeq(s, i, i + Len(sub) - 1) = sub

SafeChars == "abcdefghijklmnopqrstuvwxyzABCDEFGHIJKLMNOPQRSTUVWXYZ0123456789_.-~"

QuoteChar(c) ==
    IF \E i \in 1..Len(SafeChars) : SubSeq(SafeChars, i, i) = c THEN c
    ELSE CASE c = " " -> "+"
           [] c = "&" -> "%26"
           [] c = "/" -> "%2F"
           [] c = ":" -> "%3A"
           [] c = "ä" -> "%C3%A4"
           [] c = "ö" -> "%C3%B6"
           [] c = "ü" -> "%C3%BC"
           [] OTHER   -> "%3F"

RECURSIVE QuotePlus(_)
QuotePlus(s) ==
    IF Len(s) = 0 THEN ""
    ELSE QuoteChar(SubSeq(s, 1, 1)) \o QuotePlus(SubSeq(s, 2, Len(s)))

-----------------------------------------------------------------------------
(* Dispatcher messages and returned events *)

Message(key, args) == [response |-> key, args |-> args, buttons |-> <<>>]

Prompt(key, btns) == [response |-> key, args |-> <<>>, buttons |-> btns]

SlotSet(key, value) == [event |-> "slot", name |-> key, value |-> value]

FollowupAction(name) == [event |-> "followup", name |-> name]

UserUttered(text, intent) == [event |-> "user", text |-> text, intent |-> intent]

NoFollowup == ""

NoReply == [status_code |-> 0, content |-> PyNone]

-----------------------------------------------------------------------------
(* The tracker *)

FilterSlots == <<"language", "topic", "level", "max_duration", "certificate">>

FilterSlotNames == {FilterSlots[i] : i \in 1..Len(FilterSlots)}

SlotNames ==
    FilterSlotNames \cup {"enrollments", "course_visits", "search_terms", "recommendations"}

RECURSIVE ApplyEvents(_, _)
ApplyEvents(tr, evs) ==
    IF evs = <<>> THEN tr
    ELSE LET e == Head(evs)
             nxt == CASE e.event = "slot" ->
                           [tr EXCEPT !.slots = [@ EXCEPT ![e.name] = e.value]]
                      [] e.event = "followup" ->
                           [tr EXCEPT !.followup = e.name]
                      [] e.event = "user" ->
                           [tr EXCEPT !.latest_intent = e.intent]
         IN ApplyEvents(nxt, Tail(evs))

CanRun(name) == pc = "idle" /\ followup \in {NoFollowup, name}

-----------------------------------------------------------------------------
(* _create_filter_request_params *)

\* course['course_code'] raises KeyError for an enrolled course without that field
KeyError(enrollments) ==
    /\ Truthy(enrollments)
    /\ \E i \in 1..Len(enrollments.v) : "course_code" \notin DOMAIN enrollments.v[i]

\* run() left by an exception: nothing was sent, said or returned
Aborted(name) ==
    /\ action' = name
    /\ pc' = "ran"
    /\ raised' = TRUE
    /\ r' = NoReply
    /\ request' = <<>>
    /\ buttons' = <<>>
    /\ messages' = <<>>
    /\ events' = <<>>
    /\ followup' = NoFollowup
    /\ slot_value' = PyNone
    /\ UNCHANGED <<slots, latest_intent, retrieved, more_turns>>

CourseCodes(enrollments) ==
    IF Truthy(enrollments)
    THEN PyList([i \in 1..Len(enrollments.v) |-> enrollments.v[i].course_code])
    ELSE enrollments

CreateFilterRequestParams(sl) ==
    [language     |-> PyStr(Str(sl["language"])),
     topic        |-> PyStr(Str(sl["topic"])),
     level        |-> PyStr(Str(sl["level"])),
     max_duration |-> sl["max_duration"],
     certificate  |-> PyStr(Str(sl["certificate"])),
     enrollments  |-> CourseCodes(sl["enrollments"])]

-----------------------------------------------------------------------------
(* The recommender service's answers to the recommendation query *)

Course(i) ==
    [name        |-> "Kurs " \o ToString(i),
     course_code |-> IF i % 3 = 2 THEN "" ELSE "kurs-" \o ToString(i)]

Catalog == [i \in 1..(MaxRecs + 1) |-> Course(i)]

Responses ==
    {SubSeq(Catalog, s, s + n - 1) : s \in {1, 2}, n \in 0..MaxRecs}

Statuses == {200, 204, 401, 404, 500, 503}

RecommendationReplies ==
    {[status_code |-> 200, content |-> PyList(l)] : l \in Responses}
    \cup {[status_code |-> s, content |-> PyBytes("error")] : s \in Statuses \ {200}}

-----------------------------------------------------------------------------
(* ActionGetLearningRecommendation.run *)

\* a course item that always links by course code
CourseItemByCode(with_code, without_code, course) ==
    Message(with_code, <<course.name, course.course_code>>)

CourseItem(with_code, without_code, course) ==
    IF course.course_code # ""
    THEN Message(with_code, <<course.name, course.course_code>>)
    ELSE Message(without_code, <<course.name, QuotePlus(course.name)>>)

FirstPage(response) ==
    LET size == Len(response)
        limit == Min(size, 3)
        total == Message(IF size = 1 THEN "found_recommendations_single"
                                     ELSE "found_recommendations", <<size>>)
        items == [i \in 1..limit |->
                    CourseItem("found_course_item", "found_course_item_without_code",
                               response[i])]
        rest == size - limit
        more == IF limit < size
                THEN <<Message(IF rest = 1 THEN "found_recommendations_more_single"
                                           ELSE "found_recommendations_more_multiple",
                               <<rest>>)>>
                ELSE <<>>
    IN <<total>> \o items \o more

\* a retrieval whose "unknown error" branch is taken only for statuses >= 400
GetLearningRecommendationRunOkBelow400(reply) ==
    LET status == reply.status_code
        response == IF status = 200 THEN reply.content ELSE PyNone
        said ==
            CASE status = 200 ->
                    IF Len(response.v) < 1
                    THEN <<Message("no_recommendations_found", <<>>)>>
                    ELSE FirstPage(response.v)
              [] status = 401 -> <<Message("error_401", <<>>)>>
              [] status = 404 -> <<Message("error_404", <<>>)>>
              [] status = 500 -> <<Message("error_500", <<>>)>>
              [] status < 400 /\ status # 200 -> <<>>
              [] OTHER -> <<Message("error_unknown", <<Str(reply.content)>>)>>
    IN [messages |-> said, events |-> <<SlotSet("recommendations", response)>>]

\* a retrieval that stores what is left after the first page
GetLearningRecommendationRunStoringRest(reply) ==
    LET status == reply.status_code
        response == IF status = 200 THEN reply.content ELSE PyNone
        said ==
            CASE status = 200 ->
                    IF Len(response.v) < 1
                    THEN <<Message("no_recommendations_found", <<>>)>>
                    ELSE FirstPage(response.v)
              [] status = 401 -> <<Message("error_401", <<>>)>>
              [] status = 404 -> <<Message("error_404", <<>>)>>
              [] status = 500 -> <<Message("error_500", <<>>)>>
              [] OTHER -> <<Message("error_unknown", <<Str(reply.content)>>)>>
    IN [messages |-> said,
        events |-> <<SlotSet("recommendations",
                             IF status = 200
                             THEN PyList(SubSeq(response.v, 4, Len(response.v)))
                             ELSE response)>>]

\* a retrieval that returns the slot event only when it got a list
GetLearningRecommendationRunKeepingOnError(reply) ==
    LET status == reply.status_code
        response == IF status = 200 THEN reply.content ELSE PyNone
        said ==
            CASE status = 200 ->
                    IF Len(response.v) < 1
                    THEN <<Message("no_recommendations_found", <<>>)>>
                    ELSE FirstPage(response.v)
              [] status = 401 -> <<Message("error_401", <<>>)>>
              [] status = 404 -> <<Message("error_404", <<>>)>>
              [] status = 500 -> <<Message("error_500", <<>>)>>
              [] OTHER -> <<Message("error_unknown", <<Str(reply.content)>>)>>
    IN [messages |-> said,
        events |-> IF status = 200 THEN <<SlotSet("recommendations", response)>>
                                   ELSE <<>>]

GetLearningRecommendationRun(reply) ==
    LET status == reply.status_code
        response == IF status = 200 THEN reply.content ELSE PyNone
        said ==
            CASE status = 200 ->
                    IF Len(response.v) < 1
                    THEN <<Message("no_recommendations_found", <<>>)>>
                    ELSE FirstPage(response.v)
              [] status = 401 -> <<Message("error_401", <<>>)>>
              [] status = 404 -> <<Message("error_404", <<>>)>>
              [] status = 500 -> <<Message("error_500", <<>>)>>
              [] OTHER -> <<Message("error_unknown", <<Str(reply.content)>>)>>
    IN [messages |-> said, events |-> <<SlotSet("recommendations", response)>>]

Retrieved ==
    /\ \E reply \in RecommendationReplies :
          LET out == GetLearningRecommendationRun(reply)
          IN /\ r' = reply
             /\ messages' = out.messages
             /\ events' = out.events
             /\ retrieved' = IF reply.status_code = 200 THEN reply.content ELSE PyNone
    /\ request' = <<[url |-> "filtered_recommendation_learnings/",
                     params |-> CreateFilterRequestParams(slots)]>>
    /\ action' = "action_get_learning_recommendation"
    /\ pc' = "ran"
    /\ followup' = NoFollowup
    /\ raised' = FALSE
    /\ more_turns' = 0
    /\ buttons' = <<>>
    /\ slot_value' = PyNone
    /\ UNCHANGED <<slots, latest_intent>>

ActionGetLearningRecommendation ==
    /\ CanRun("action_get_learning_recommendation")
    /\ IF KeyError(slots["enrollments"])
       THEN Aborted("action_get_learning_recommendation")
       ELSE Retrieved

-----------------------------------------------------------------------------
(* ActionAdditionalLearningRecommendation.run *)

NextSliceOffByOne(recommendations) ==
    SubSeq(recommendations, 3, Len(recommendations))

\* a slice that drops nothing
NextSliceWhole(recommendations) == SubSeq(recommendations, 1, Len(recommendations))

NextSlice(recommendations) == SubSeq(recommendations, 4, Len(recommendations))

\* a "show more" page that reports the size of the list it pages through instead
\* of what is left after the page
NextPageCountingShown(recommendations) ==
    LET size == Len(recommendations)
        limit == Min(size, 3)
        total == Message(IF size = 1 THEN "additional_recommendations_single"
                                     ELSE "additional_recommendations", <<size>>)
        items == [i \in 1..limit |->
                    CourseItem("additional_course_item",
                               "additional_course_item_without_code",
                               recommendations[i])]
        rest == size
        more == IF limit < size
                THEN <<Message(IF rest = 1 THEN "additional_recommendations_more_single"
                                           ELSE "additional_recommendations_more_multiple",
                               <<rest>>)>>
                ELSE <<>>
    IN <<total>> \o items \o more

NextPage(recommendations) ==
    LET size == Len(recommendations)
        limit == Min(size, 3)
        total == Message(IF size = 1 THEN "additional_recommendations_single"
                                     ELSE "additional_recommendations", <<size>>)
        items == [i \in 1..limit |->
                    CourseItem("additional_course_item",
                               "additional_course_item_without_code",
                               recommendations[i])]
        rest == size - limit
        more == IF limit < size
                THEN <<Message(IF rest = 1 THEN "additional_recommendations_more_single"
                                           ELSE "additional_recommendations_more_multiple",
                               <<rest>>)>>
                ELSE <<>>
    IN <<total>> \o items \o more

NoMoreBelowPage(recommendations) ==
    \/ ~Truthy(recommendations)
    \/ Len(recommendations.v) < 3

NoMore(recommendations) ==
    \/ ~Truthy(recommendations)
    \/ Len(recommendations.v) <= 3

\* a "show more" that returns the list it read instead of the rest it paged to
AdditionalLearningRecommendationRunKeeping(recommendations) ==
    IF NoMore(recommendations)
    THEN [messages |-> <<Message("no_more_recommendations", <<>>)>>,
          events   |-> <<SlotSet("recommendations", recommendations)>>]
    ELSE LET rest == NextSlice(recommendations.v)
         IN [messages |-> NextPage(rest),
             events   |-> <<SlotSet("recommendations", recommendations)>>]

AdditionalLearningRecommendationRun(recommendations) ==
    IF NoMore(recommendations)
    THEN [messages |-> <<Message("no_more_recommendations", <<>>)>>,
          events   |-> <<SlotSet("recommendations", recommendations)>>]
    ELSE LET rest == NextSlice(recommendations.v)
         IN [messages |-> NextPage(rest),
             events   |-> <<SlotSet("recommendations", PyList(rest))>>]

ActionAdditionalLearningRecommendation ==
    /\ CanRun("action_additional_learning_recommendation")
    /\ more_turns < MaxMore
    /\ LET out == AdditionalLearningRecommendationRun(slots["recommendations"])
       IN /\ messages' = out.messages
          /\ events' = out.events
    /\ r' = NoReply
    /\ request' = <<>>
    /\ action' = "action_additional_learning_recommendation"
    /\ pc' = "ran"
    /\ followup' = NoFollowup
    /\ raised' = FALSE
    /\ more_turns' = more_turns + 1
    /\ buttons' = <<>>
    /\ slot_value' = PyNone
    /\ UNCHANGED <<slots, latest_intent, retrieved>>

-----------------------------------------------------------------------------
(* The recommender service's answers to the count query *)

ValueKeys(slot) ==
    CASE slot = "language"     -> <<"deutsch", "englisch", "egal">>
      [] slot = "topic"        -> <<"ki-einführung", "ki-vertiefung", "ki-berufsfelder",
                                    "ki-gesellschaft", "data science",
                                    "maschinelles lernen", "egal">>
      [] slot = "level"        -> <<"anfänger", "fortgeschritten", "experte", "egal">>
      [] slot = "max_duration" -> <<"0", "10", "50", "51", "egal">>
      [] slot = "certificate"  -> <<"teilnahmebescheinigung", "leistungsnachweis", "egal">>

AlternativeKeys(slot) ==
    CASE slot = "language"     -> <<"de", "en">>
      [] slot = "topic"        -> <<"ki", "machine learning">>
      [] slot = "level"        -> <<"einsteiger", "expert">>
      [] slot = "max_duration" -> <<"kurz", "5">>
      [] slot = "certificate"  -> <<"zertifikat", "nachweis">>

Absent == -1

RECURSIVE Present(_, _, _)
Present(keys, pick, i) ==
    IF i > Len(keys) THEN <<>>
    ELSE IF pick[i] = Absent THEN Present(keys, pick, i + 1)
    ELSE <<[key |-> keys[i], count |-> pick[i]]>> \o Present(keys, pick, i + 1)

\* the JSON objects over `keys` less at most `max_absent` of them, in the order of
\* `keys`, with counts of `counts`
Mappings(keys, counts, max_absent) ==
    {Present(keys, pick, 1) :
        pick \in {p \in [1..Len(keys) -> counts \cup {Absent}] :
                     Cardinality({i \in 1..Len(keys) : p[i] = Absent}) <= max_absent}}

CountResults(slot) ==
    UNION {
      {[param |-> slot, values |-> vs, has_alternatives |-> FALSE, alternatives |-> <<>>] :
          vs \in Mappings(ValueKeys(slot), {0, c}, MaxAbsent)}
      \cup
      {[param |-> slot, values |-> vs, has_alternatives |-> TRUE, alternatives |-> as] :
          vs \in Mappings(ValueKeys(slot), {0, c}, MaxAbsent),
          as \in Mappings(AlternativeKeys(slot), {c + 1}, Len(AlternativeKeys(slot)))}
      : c \in 1..MaxCount }

CountRepliesFor(slot) ==
    {[status_code |-> 200, content |-> PyDict(cr)] : cr \in CountResults(slot)}
    \cup {[status_code |-> st, content |-> PyBytes("error")] : st \in {404, 500}}

CountReplies == [slot \in FilterSlotNames |-> CountRepliesFor(slot)]

-----------------------------------------------------------------------------
(* _retrieve_filter_result_count_for *)

\* a count query that forgets the filters already chosen
CountParamsOfNoSlots(count_param, sl) ==
    [CreateFilterRequestParams([s \in DOMAIN sl |-> PyNone])
        EXCEPT ![count_param] = PyStr("zaehle")]

CountParams(count_param, sl) ==
    [CreateFilterRequestParams(sl) EXCEPT ![count_param] = PyStr("zaehle")]

RetrieveFilterResultCountFor(reply) ==
    IF reply.status_code < 400 THEN reply.content ELSE PyNone

-----------------------------------------------------------------------------
(* _add_count_to_button_titles *)

Button(title, payload) == [title |-> title, payload |-> payload]

StaticButtons(slot) ==
    CASE slot = "language" ->
           <<Button("language_option_german", "/inform{\"language\":\"Deutsch\"}"),
             Button("language_option_english", "/inform{\"language\":\"Englisch\"}"),
             Button("language_option_any", "/undecided")>>
      [] slot = "topic" ->
           <<Button("topic_option_introduction_ai", "/inform{\"topic\":\"ki-einführung\"}"),
             Button("topic_option_specialized_ai", "/inform{\"topic\":\"ki-vertiefung\"}"),
             Button("topic_option_professions_and_ai",
                    "/inform{\"topic\":\"ki-berufsfelder\"}"),
             Button("topic_option_society_and_ai", "/inform{\"topic\":\"ki-gesellschaft\"}"),
             Button("topic_option_data_science", "/inform{\"topic\":\"Data Science\"}"),
             Button("topic_option_machine_learning",
                    "/inform{\"topic\":\"Maschinelles Lernen\"}"),
             Button("topic_option_any", "/undecided")>>
      [] slot = "level" ->
           <<Button("level_option_beginner", "/inform{\"level\":\"Anfänger\"}"),
             Button("level_option_advanced", "/inform{\"level\":\"Fortgeschritten\"}"),
             Button("level_option_expert", "/inform{\"level\":\"Experte\"}")>>
      [] slot = "max_duration" ->
           <<Button("duration_option_max_10h", "/inform{\"max_duration\":\"10\"}"),
             Button("duration_option_max_50h", "/inform{\"max_duration\":\"50\"}"),
             Button("duration_option_any", "/inform{\"max_duration\":\"51\"}")>>
      [] slot = "certificate" ->
           <<Button("certificate_option_unqualified",
                    "/inform{\"certificate\":\"Teilnahmebescheinigung\"}"),
             Button("certificate_option_qualified",
                    "/inform{\"certificate\":\"Leistungsnachweis\"}"),
             Button("certificate_option_any", "/undecided")>>

\* btn['payload'].lower(), looked up for the payloads of the static lists
StaticPayloads ==
    UNION {{StaticButtons(FilterSlots[k])[i].payload :
               i \in 1..Len(StaticButtons(FilterSlots[k]))} : k \in 1..Len(FilterSlots)}

LowerOfPayload == [p \in StaticPayloads |-> Lower(p)]

PayloadLower(payload) ==
    IF payload \in StaticPayloads THEN LowerOfPayload[payload] ELSE Lower(payload)

PayloadField(count_field) ==
    IF count_field = "egal" THEN "/undecided" ELSE "\"" \o count_field \o "\""

\* `field in btn['payload'].lower()`, looked up for the fields the service sends
CountFields ==
    UNION {{PayloadField(ValueKeys(FilterSlots[k])[i]) :
               i \in 1..Len(ValueKeys(FilterSlots[k]))}
           \cup {AlternativeKeys(FilterSlots[k])[i] :
               i \in 1..Len(AlternativeKeys(FilterSlots[k]))} : k \in 1..Len(FilterSlots)}

FieldInPayload ==
    [field \in CountFields |-> [p \in StaticPayloads |-> Contains(field, Lower(p))]]

InPayload(field, payload) ==
    IF field \in CountFields /\ payload \in StaticPayloads
    THEN FieldInPayload[field][payload]
    ELSE Contains(field, PayloadLower(payload))

FirstOf(hits) ==
    IF hits = {} THEN 0 ELSE CHOOSE i \in hits : \A j \in hits : i <= j

\* a search that falls back to the first button when no payload holds the field
FirstMatchOrHead(field, btns) ==
    IF {i \in 1..Len(btns) : InPayload(field, btns[i].payload)} = {}
    THEN IF btns = <<>> THEN 0 ELSE 1
    ELSE FirstOf({i \in 1..Len(btns) : InPayload(field, btns[i].payload)})

FirstMatch(field, btns) ==
    FirstOf({i \in 1..Len(btns) : InPayload(field, btns[i].payload)})

RemoveAt(btns, i) == SubSeq(btns, 1, i - 1) \o SubSeq(btns, i + 1, Len(btns))

\* a list.remove() that re-appends the button instead of dropping it
ListRemoveAppending(btns, btn) == Append(btns, btn)

ListRemove(btns, btn) == RemoveAt(btns, FirstOf({i \in 1..Len(btns) : btns[i] = btn}))

Annotate(btn, val) == [btn EXCEPT !.title = @ \o " (" \o ToString(val) \o ")"]

\* one pass of the loop over count_result['values'], btn = buttons[i] the match
ValueStep(st, i, val) ==
    IF i = 0 THEN st
    ELSE IF val = 0
    THEN [st EXCEPT !.buttons = ListRemove(@, st.buttons[i])]
    ELSE [st EXCEPT !.buttons[i] = Annotate(@, val), !.applied = @ + 1]

RECURSIVE ApplyValues(_, _)
ApplyValues(values, st) ==
    IF values = <<>> THEN st
    ELSE ApplyValues(Tail(values),
                     ValueStep(st,
                               FirstMatch(PayloadField(Head(values).key), st.buttons),
                               Head(values).count))

\* one pass of the loop over count_result['alternatives']
AlternativeStep(st, i, val) ==
    IF i = 0 THEN st
    ELSE [st EXCEPT !.buttons[i] = Annotate(@, val), !.applied = @ + 1]

RECURSIVE ApplyAlternatives(_, _)
ApplyAlternatives(alternatives, st) ==
    IF alternatives = <<>> THEN st
    ELSE ApplyAlternatives(Tail(alternatives),
                           AlternativeStep(st,
                                           FirstMatch(Head(alternatives).key, st.buttons),
                                           Head(alternatives).count))

TryAlternatives(count_result, size, st) ==
    IF st.applied < size /\ count_result.has_alternatives
    THEN ApplyAlternatives(count_result.alternatives, st)
    ELSE st

AddCountToButtonTitles(count_result, btns) ==
    IF count_result.t = "None"
    THEN [buttons |-> btns, applied |-> 0, raised |-> TRUE]
    ELSE TryAlternatives(count_result.v, Len(btns),
                         ApplyValues(count_result.v.values,
                                     [buttons |-> btns, applied |-> 0, raised |-> FALSE]))

-----------------------------------------------------------------------------
(* ActionAskLanguage, ActionAskTopic, ActionAskLevel, ActionAskMaxDuration,
   ActionAskCertificate *)

ChangeIntent(slot) == "change_" \o slot \o "_slot"

ConfirmText(slot) ==
    IF slot = "max_duration" THEN "confirm_and_show_change_duration"
    ELSE "confirm_and_show_change_" \o slot

AskText(slot) ==
    IF slot = "max_duration" THEN "ask_select_duration" ELSE "ask_select_" \o slot

\* a question that takes the change-request of any slot for its own
QuestionTextOnAnyChange(slot, intent) ==
    IF \E i \in 1..Len(FilterSlots) : intent = ChangeIntent(FilterSlots[i])
    THEN ConfirmText(slot) ELSE AskText(slot)

QuestionText(slot, intent) ==
    IF intent = ChangeIntent(slot) THEN ConfirmText(slot) ELSE AskText(slot)

Raise(btns) == [buttons |-> btns, messages |-> <<>>, events |-> <<>>, raised |-> TRUE]

Ask(slot, intent, btns) ==
    [buttons  |-> btns,
     messages |-> <<Prompt(QuestionText(slot, intent), btns)>>,
     events   |-> <<>>,
     raised   |-> FALSE]

Prompted(slot, intent, pruned) ==
    IF pruned.raised THEN Raise(pruned.buttons)
    ELSE Ask(slot, intent, pruned.buttons)

AskRun(slot, count_response, intent) ==
    Prompted(slot, intent, AddCountToButtonTitles(count_response, StaticButtons(slot)))

RECURSIVE Replace(_, _, _)
Replace(s, old, new) ==
    IF Len(s) < Len(old) THEN s
    ELSE IF SubSeq(s, 1, Len(old)) = old
    THEN new \o Replace(SubSeq(s, Len(old) + 1, Len(s)), old, new)
    ELSE SubSeq(s, 1, 1) \o Replace(SubSeq(s, 2, Len(s)), old, new)

\* json.loads(text)[key] for a text of the form {"<key>":"<value>"}; PyNone when
\* json.loads or the lookup raises
JsonLoadsField(text, key) ==
    IF /\ Len(text) >= Len(key) + 7
       /\ SubSeq(text, 1, Len(key) + 5) = "{\"" \o key \o "\":\""
       /\ SubSeq(text, Len(text) - 1, Len(text)) = "\"}"
    THEN PyStr(SubSeq(text, Len(key) + 6, Len(text) - 2))
    ELSE PyNone

\* an auto-apply that stores the title of the remaining button
AutoApplyTitle(btns, btn, val) ==
    IF val.t = "None" THEN Raise(btns)
    ELSE [buttons  |-> btns,
          messages |-> <<>>,
          events   |-> <<UserUttered(btn.payload, "action_get_learning_recommendation"),
                         SlotSet("level", PyStr(btn.title)),
                         FollowupAction("action_get_learning_recommendation")>>,
          raised   |-> FALSE]

AutoApply(btns, btn, val) ==
    IF val.t = "None" THEN Raise(btns)
    ELSE [buttons  |-> btns,
          messages |-> <<>>,
          events   |-> <<UserUttered(btn.payload, "action_get_learning_recommendation"),
                         SlotSet("level", val),
                         FollowupAction("action_get_learning_recommendation")>>,
          raised   |-> FALSE]

AutoApplyUndecided(btns) ==
    [buttons  |-> btns,
     messages |-> <<>>,
     events   |-> <<UserUttered("/undecided", "action_get_learning_recommendation"),
                    SlotSet("level", PyStr("egal")),
                    FollowupAction("action_get_learning_recommendation")>>,
     raised   |-> FALSE]

ShortCut(intent, pruned, btns) ==
    IF pruned.raised THEN Raise(btns)
    ELSE IF Len(btns) <= 1
    THEN IF Len(btns) = 0
         THEN AutoApplyUndecided(btns)
         ELSE AutoApply(btns, btns[1],
                        JsonLoadsField(Replace(btns[1].payload, "/inform", ""), "level"))
    ELSE Ask("level", intent, btns)

ShortCutOrAsk(intent, pruned) == ShortCut(intent, pruned, pruned.buttons)

AskLevelRun(count_response, intent) ==
    ShortCutOrAsk(intent, AddCountToButtonTitles(count_response, StaticButtons("level")))

\* a slot question that sends the count query again when it failed
AskedRetrying(slot, reply, out) ==
    /\ r' = reply
    /\ request' = IF reply.status_code >= 400
                  THEN <<[url |-> "count_filtered_recommendation_learnings/",
                          params |-> CountParams(slot, slots)],
                         [url |-> "count_filtered_recommendation_learnings/",
                          params |-> CountParams(slot, slots)]>>
                  ELSE <<[url |-> "count_filtered_recommendation_learnings/",
                          params |-> CountParams(slot, slots)]>>
    /\ buttons' = out.buttons
    /\ messages' = out.messages
    /\ events' = out.events
    /\ raised' = out.raised
    /\ action' = "action_ask_" \o slot
    /\ pc' = "ran"
    /\ followup' = NoFollowup
    /\ slot_value' = PyNone
    /\ UNCHANGED <<slots, latest_intent, retrieved, more_turns>>

Asked(slot, reply, out) ==
    /\ r' = reply
    /\ request' = <<[url |-> "count_filtered_recommendation_learnings/",
                     params |-> CountParams(slot, slots)]>>
    /\ buttons' = out.buttons
    /\ messages' = out.messages
    /\ events' = out.events
    /\ raised' = out.raised
    /\ action' = "action_ask_" \o slot
    /\ pc' = "ran"
    /\ followup' = NoFollowup
    /\ slot_value' = PyNone
    /\ UNCHANGED <<slots, latest_intent, retrieved, more_turns>>

ActionAskLanguage ==
    /\ CanRun("action_ask_language")
    /\ IF KeyError(slots["enrollments"])
       THEN Aborted("action_ask_language")
       ELSE \E reply \in CountReplies["language"] :
            Asked("language", reply,
                  AskRun("language", RetrieveFilterResultCountFor(reply), latest_intent))

ActionAskTopic ==
    /\ CanRun("action_ask_topic")
    /\ IF KeyError(slots["enrollments"])
       THEN Aborted("action_ask_topic")
       ELSE \E reply \in CountReplies["topic"] :
            Asked("topic", reply,
                  AskRun("topic", RetrieveFilterResultCountFor(reply), latest_intent))

ActionAskLevel ==
    /\ CanRun("action_ask_level")
    /\ IF KeyError(slots["enrollments"])
       THEN Aborted("action_ask_level")
       ELSE \E reply \in CountReplies["level"] :
            Asked("level", reply,
                  AskLevelRun(RetrieveFilterResultCountFor(reply), latest_intent))

ActionAskMaxDuration ==
    /\ CanRun("action_ask_max_duration")
    /\ IF KeyError(slots["enrollments"])
       THEN Aborted("action_ask_max_duration")
       ELSE \E reply \in CountReplies["max_duration"] :
            Asked("max_duration", reply,
                  AskRun("max_duration", RetrieveFilterResultCountFor(reply), latest_intent))

ActionAskCertificate ==
    /\ CanRun("action_ask_certificate")
    /\ IF KeyError(slots["enrollments"])
       THEN Aborted("action_ask_certificate")
       ELSE \E reply \in CountReplies["certificate"] :
            Asked("certificate", reply,
                  AskRun("certificate", RetrieveFilterResultCountFor(reply), latest_intent))

-----------------------------------------------------------------------------
(* ActionDeleteSlotValue.run *)

\* a slot deletion whose level branch was copied from the language branch
DeleteSlotValueRunCopied(intent) ==
    CASE intent = "change_language_slot"     -> <<SlotSet("language", PyNone)>>
      [] intent = "change_topic_slot"        -> <<SlotSet("topic", PyNone)>>
      [] intent = "change_level_slot"        -> <<SlotSet("language", PyNone)>>
      [] intent = "change_max_duration_slot" -> <<SlotSet("max_duration", PyNone)>>
      [] intent = "change_certificate_slot"  -> <<SlotSet("certificate", PyNone)>>
      [] intent = "start_recommender_form"   ->
            <<SlotSet("language", PyNone), SlotSet("topic", PyNone),
              SlotSet("level", PyNone), SlotSet("max_duration", PyNone),
              SlotSet("certificate", PyNone)>>
      [] OTHER -> <<>>

DeleteSlotValueRun(intent) ==
    CASE intent = "change_language_slot"     -> <<SlotSet("language", PyNone)>>
      [] intent = "change_topic_slot"        -> <<SlotSet("topic", PyNone)>>
      [] intent = "change_level_slot"        -> <<SlotSet("level", PyNone)>>
      [] intent = "change_max_duration_slot" -> <<SlotSet("max_duration", PyNone)>>
      [] intent = "change_certificate_slot"  -> <<SlotSet("certificate", PyNone)>>
      [] intent = "start_recommender_form"   ->
            <<SlotSet("language", PyNone), SlotSet("topic", PyNone),
              SlotSet("level", PyNone), SlotSet("max_duration", PyNone),
              SlotSet("certificate", PyNone)>>
      [] OTHER -> <<>>

ActionDeleteSlotValue ==
    /\ CanRun("action_delete_slot_value")
    /\ events' = DeleteSlotValueRun(latest_intent)
    /\ messages' = <<>>
    /\ r' = NoReply
    /\ request' = <<>>
    /\ buttons' = <<>>
    /\ raised' = FALSE
    /\ action' = "action_delete_slot_value"
    /\ pc' = "ran"
    /\ followup' = NoFollowup
    /\ slot_value' = PyNone
    /\ UNCHANGED <<slots, latest_intent, retrieved, more_turns>>

-----------------------------------------------------------------------------
(* ValidateRecommenderForm *)

language_db == <<"deutsch", "englisch", "egal">>

language_no_support_db ==
    <<"spanisch", "französisch", "robotisch", "russisch", "slowakisch", "katalanisch",
      "tschechisch", "mandarin", "hindi", "niederländisch", "schwedisch", "holländisch">>

topic_db ==
    <<"ki-einführung", "ki-vertiefung", "ki-berufsfelder", "ki-gesellschaft",
      "data science", "maschinelles lernen", "egal">>

certificate_db == <<"teilnahmebescheinigung", "leistungsnachweis", "egal">>

max_duration_db == <<"0", "10", "50", "51">>

level_db == <<"anfänger", "fortgeschritten", "experte">>

In(x, list) == \E i \in 1..Len(list) : list[i] = x

Validated(slot, value, said) ==
    [messages |-> said, events |-> <<SlotSet(slot, value)>>]

\* a language validator whose unsupported branch does not return
validate_language_falling_through(raw) ==
    IF Truthy(raw) /\ In(Lower(raw.v), language_db)
    THEN Validated("language", PyStr(Lower(raw.v)), <<>>)
    ELSE IF Truthy(raw) /\ In(Lower(raw.v), language_no_support_db)
    THEN Validated("language", PyNone,
                   <<Message("unsupported_language_selection", <<Capitalize(raw.v)>>),
                     Message("utter_interjection_languages", <<>>)>>)
    ELSE Validated("language", PyNone, <<Message("utter_interjection_languages", <<>>)>>)

validate_language(raw) ==
    IF Truthy(raw) /\ In(Lower(raw.v), language_db)
    THEN Validated("language", PyStr(Lower(raw.v)), <<>>)
    ELSE IF Truthy(raw) /\ In(Lower(raw.v), language_no_support_db)
    THEN Validated("language", PyNone,
                   <<Message("unsupported_language_selection", <<Capitalize(raw.v)>>)>>)
    ELSE Validated("language", PyNone, <<Message("utter_interjection_languages", <<>>)>>)

\* a topic validator that says nothing
validate_topic_silent(raw) ==
    IF Truthy(raw) /\ In(Lower(raw.v), topic_db)
    THEN Validated("topic", PyStr(Lower(raw.v)), <<>>)
    ELSE Validated("topic", PyNone, <<>>)

validate_topic(raw) ==
    IF Truthy(raw) /\ In(Lower(raw.v), topic_db)
    THEN Validated("topic", PyStr(Lower(raw.v)), <<>>)
    ELSE Validated("topic", PyNone, <<Message("utter_unavailable_topic", <<>>)>>)

validate_certificate(raw) ==
    IF Truthy(raw) /\ In(Lower(raw.v), certificate_db)
    THEN Validated("certificate", PyStr(Lower(raw.v)), <<>>)
    ELSE Validated("certificate", PyNone, <<>>)

validate_max_duration(raw) ==
    IF Truthy(raw) /\ In(Lower(raw.v), max_duration_db)
    THEN Validated("max_duration", PyStr(Lower(raw.v)), <<>>)
    ELSE Validated("max_duration", PyNone, <<>>)

\* a level validator that stores the value as typed
validate_level_as_typed(raw) ==
    IF Truthy(raw) /\ In(Lower(raw.v), level_db)
    THEN Validated("level", raw, <<>>)
    ELSE Validated("level", PyNone, <<>>)

validate_level(raw) ==
    IF Truthy(raw) /\ In(Lower(raw.v), level_db)
    THEN Validated("level", PyStr(Lower(raw.v)), <<>>)
    ELSE Validated("level", PyNone, <<>>)

\* what the user (or the NLU's entity extraction) fills a slot with
RawValues ==
    {PyNone} \cup
    {PyStr(v) : v \in {"", "Englisch", "DEUTSCH", "egal", "Egal", "Spanisch", "spanisch",
                       "Klingonisch", "KI-Einführung", "Data Science", "Anfänger",
                       "anfaenger", "10", "Leistungsnachweis"}}

ValidateDone(slot, raw, out) ==
    /\ slot_value' = raw
    /\ messages' = out.messages
    /\ events' = out.events
    /\ action' = "validate_" \o slot
    /\ r' = NoReply
    /\ request' = <<>>
    /\ buttons' = <<>>
    /\ raised' = FALSE
    /\ pc' = "ran"
    /\ followup' = NoFollowup
    /\ UNCHANGED <<slots, latest_intent, retrieved, more_turns>>

ValidateLanguage ==
    /\ CanRun("validate_recommender_form")
    /\ \E raw \in RawValues : ValidateDone("language", raw, validate_language(raw))

ValidateTopic ==
    /\ CanRun("validate_recommender_form")
    /\ \E raw \in RawValues : ValidateDone("topic", raw, validate_topic(raw))

ValidateCertificate ==
    /\ CanRun("validate_recommender_form")
    /\ \E raw \in RawValues : ValidateDone("certificate", raw, validate_certificate(raw))

ValidateMaxDuration ==
    /\ CanRun("validate_recommender_form")
    /\ \E raw \in RawValues : ValidateDone("max_duration", raw, validate_max_duration(raw))

ValidateLevel ==
    /\ CanRun("validate_recommender_form")
    /\ \E raw \in RawValues : ValidateDone("level", raw, validate_level(raw))

-----------------------------------------------------------------------------
(* The user's next message reaches the tracker with the intent the NLU gave it *)

(* ActionFetchProfile.run *)

\* enrolled courses as the profile service lists them: with a course code, with an
\* empty one, and without the field
Enrolled ==
    {[title |-> "Kurs A", course_code |-> "kurs-a"],
     [title |-> "Kurs B", course_code |-> ""],
     [title |-> "Kurs C"]}

RECURSIVE ListsOf(_, _)
ListsOf(S, n) ==
    IF n = 0 THEN {<<>>}
    ELSE ListsOf(S, n - 1) \cup {Append(l, e) : l \in ListsOf(S, n - 1), e \in S}

ProfileReplies ==
    {[status_code |-> 200, content |-> PyList(l)] : l \in ListsOf(Enrolled, MaxEnrolled)}
    \cup {[status_code |-> 401, content |-> PyBytes("error")]}

FetchProfileRun(reply) ==
    <<SlotSet("enrollments", IF reply.status_code = 200 THEN reply.content ELSE PyNone),
      SlotSet("course_visits", PyList(<<>>)),
      SlotSet("search_terms", PyList(<<>>))>>

ActionFetchProfile ==
    /\ CanRun("action_fetch_profile")
    /\ \E reply \in ProfileReplies :
          /\ r' = reply
          /\ events' = FetchProfileRun(reply)
    /\ request' = <<[url |-> "my_courses", params |-> PyNone]>>
    /\ messages' = <<>>
    /\ buttons' = <<>>
    /\ raised' = FALSE
    /\ action' = "action_fetch_profile"
    /\ pc' = "ran"
    /\ followup' = NoFollowup
    /\ slot_value' = PyNone
    /\ UNCHANGED <<slots, latest_intent, retrieved, more_turns>>

-----------------------------------------------------------------------------

Intents ==
    {ChangeIntent(FilterSlots[i]) : i \in 1..Len(FilterSlots)}
    \cup {"start_recommender_form", "inform"}

UserMessage ==
    /\ pc = "idle"
    /\ followup = NoFollowup
    /\ \E intent \in Intents \ {latest_intent} : latest_intent' = intent
    /\ UNCHANGED <<slots, followup, pc, action, r, request, slot_value, buttons,
                   messages, events, raised, retrieved, more_turns>>

-----------------------------------------------------------------------------
(* The host runtime applies the events run() returned (an action that raised
   returns none), sends the collected messages and drops the dispatcher *)

HostApplyEvents ==
    /\ pc = "ran"
    /\ LET tr == ApplyEvents([slots |-> slots, followup |-> followup,
                              latest_intent |-> latest_intent], events)
       IN /\ slots' = tr.slots
          /\ followup' = tr.followup
          /\ latest_intent' = tr.latest_intent
    /\ pc' = "idle"
    /\ action' = ""
    /\ r' = NoReply
    /\ request' = <<>>
    /\ slot_value' = PyNone
    /\ buttons' = <<>>
    /\ messages' = <<>>
    /\ events' = <<>>
    /\ raised' = FALSE
    /\ UNCHANGED <<retrieved, more_turns>>

-----------------------------------------------------------------------------

Init ==
    /\ slots = [s \in SlotNames |-> PyNone]
    /\ latest_intent = "start_recommender_form"
    /\ followup = NoFollowup
    /\ pc = "idle"
    /\ action = ""
    /\ r = NoReply
    /\ request = <<>>
    /\ slot_value = PyNone
    /\ buttons = <<>>
    /\ messages = <<>>
    /\ events = <<>>
    /\ raised = FALSE
    /\ retrieved = PyNone
    /\ more_turns = 0

NextRecommend ==
    \/ ActionGetLearningRecommendation
    \/ ActionAdditionalLearningRecommendation
    \/ HostApplyEvents

SpecRecommend == Init /\ [][NextRecommend]_vars

NextAsk ==
    \/ ActionAskLanguage
    \/ ActionAskTopic
    \/ ActionAskLevel
    \/ ActionAskMaxDuration
    \/ ActionAskCertificate
    \/ UserMessage
    \/ HostApplyEvents

SpecAsk == Init /\ [][NextAsk]_vars

NextValidate ==
    \/ ValidateLanguage
    \/ ValidateTopic
    \/ ValidateCertificate
    \/ ValidateMaxDuration
    \/ ValidateLevel
    \/ HostApplyEvents

SpecValidate == Init /\ [][NextValidate]_vars

NextCount ==
    \/ ValidateLevel
    \/ ValidateMaxDuration
    \/ ActionAskLanguage
    \/ ActionAskTopic
    \/ ActionAskLevel
    \/ ActionAskMaxDuration
    \/ ActionAskCertificate
    \/ HostApplyEvents

SpecCount == Init /\ [][NextCount]_vars

NextDelete ==
    \/ ValidateLanguage
    \/ ValidateTopic
    \/ ValidateCertificate
    \/ ValidateMaxDuration
    \/ ValidateLevel
    \/ UserMessage
    \/ ActionDeleteSlotValue
    \/ HostApplyEvents

SpecDelete == Init /\ [][NextDelete]_vars

\* the filter-gathering dialogue: the slot questions come before the first list is
\* retrieved, then the list is paged through
Gathering == retrieved = PyNone /\ slots["recommendations"] = PyNone

NextCalls ==
    \/ Gathering /\ ActionAskLanguage
    \/ Gathering /\ ActionAskTopic
    \/ Gathering /\ ActionAskLevel
    \/ Gathering /\ ActionAskMaxDuration
    \/ Gathering /\ ActionAskCertificate
    \/ ActionGetLearningRecommendation
    \/ ActionAdditionalLearningRecommendation
    \/ HostApplyEvents

SpecCalls == Init /\ [][NextCalls]_vars

NextProfile ==
    \/ ActionFetchProfile
    \/ ActionGetLearningRecommendation
    \/ HostApplyEvents

SpecProfile == Init /\ [][NextProfile]_vars

\* one retrieved list, then "show more" again and again with no new retrieval
NextPaging ==
    \/ retrieved = PyNone /\ ActionGetLearningRecommendation
    \/ ActionAdditionalLearningRecommendation
    \/ HostApplyEvents

SpecPaging ==
    /\ Init
    /\ [][NextPaging]_vars
    /\ WF_vars(ActionAdditionalLearningRecommendation)
    /\ WF_vars(HostApplyEvents)

Next ==
    \/ ActionFetchProfile
    \/ ActionGetLearningRecommendation
    \/ ActionAdditionalLearningRecommendation
    \/ ActionDeleteSlotValue
    \/ ActionAskLanguage
    \/ ActionAskTopic
    \/ ActionAskLevel
    \/ ActionAskMaxDuration
    \/ ActionAskCertificate
    \/ ValidateLanguage
    \/ ValidateTopic
    \/ ValidateCertificate
    \/ ValidateMaxDuration
    \/ ValidateLevel
    \/ UserMessage
    \/ HostApplyEvents

Spec == Init /\ [][Next]_vars

-----------------------------------------------------------------------------
(* Pagination *)

IsCourseItem(m) ==
    m.response \in {"found_course_item", "found_course_item_without_code",
                    "additional_course_item", "additional_course_item_without_code"}

ShownNames(msgs) ==
    LET items == SelectSeq(msgs, IsCourseItem)
    IN [i \in 1..Len(items) |-> items[i].args[1]]

NamesOf(l, from, to) == [i \in 1..(to - from + 1) |-> l[from + i - 1].name]

NoMoreOnly == <<Message("no_more_recommendations", <<>>)>>

\* C1: after a successful retrieval of n items, the retrieval turn shows items
\* 1..min(3,n); the k-th "show more" turn shows items 3k+1..min(3k+3,n) while
\* 3k < n, and once no unseen item is left it emits only "no more recommendations".
C1_PagesOfThree ==
    (pc = "ran" /\ retrieved.t = "list") =>
        LET n == Len(retrieved.v)
            k == more_turns
        IN /\ action = "action_get_learning_recommendation" =>
                ShownNames(messages) = NamesOf(retrieved.v, 1, Min(3, n))
           /\ action = "action_additional_learning_recommendation" =>
                IF 3 * k < n
                THEN ShownNames(messages)
                        = NamesOf(retrieved.v, 3 * k + 1, Min(3 * k + 3, n))
                ELSE messages = NoMoreOnly

C1_Witness ==
    /\ pc = "ran"
    /\ action = "action_additional_learning_recommendation"
    /\ retrieved.t = "list"
    /\ Len(retrieved.v) = 7
    /\ more_turns = 3
    /\ messages = NoMoreOnly
    /\ slots["recommendations"] = PyList(SubSeq(retrieved.v, 7, 7))

AtMostOnePage(rec) == rec.t = "None" \/ (rec.t = "list" /\ Len(rec.v) <= 3)

\* C2: "show more" on an absent, empty or at most 3 item long stored list emits
\* exactly the "no more recommendations" message, shows no course item, and leaves
\* the stored recommendations as they were, so repeating it stays in that state.
C2_NoMoreIsTerminal ==
    /\ [](  (/\ pc = "ran"
             /\ action = "action_additional_learning_recommendation"
             /\ AtMostOnePage(slots["recommendations"]))
            => /\ messages = NoMoreOnly
               /\ ShownNames(messages) = <<>>
               /\ ~raised)
    /\ [][ (/\ pc = "ran"
            /\ action = "action_additional_learning_recommendation"
            /\ AtMostOnePage(slots["recommendations"]))
           => /\ slots'["recommendations"] = slots["recommendations"]
              /\ AtMostOnePage(slots'["recommendations"]) ]_vars

C2_Witness ==
    /\ pc = "ran"
    /\ action = "action_additional_learning_recommendation"
    /\ more_turns >= 2
    /\ messages = NoMoreOnly
    /\ slots["recommendations"].t = "list"
    /\ Len(slots["recommendations"].v) = 3

-----------------------------------------------------------------------------
(* Slot questions *)

IsAsk == pc = "ran" /\ \E slot \in FilterSlotNames : action = "action_ask_" \o slot

AskedSlot == CHOOSE slot \in FilterSlotNames : action = "action_ask_" \o slot

CountFailed == r.status_code >= 400

Pruned == IsAsk /\ ~CountFailed /\ ~raised

Catalogue == StaticButtons(AskedSlot)

Values == r.content.v.values

\* the candidate option a key of "values" matches: the first one of the catalogue
\* whose lower-cased command holds the key (0 if there is none)
MatchOf(key) ==
    LET hits == {j \in 1..Len(Catalogue) :
                    Contains(PayloadField(key), Lower(Catalogue[j].payload))}
    IN IF hits = {} THEN 0 ELSE CHOOSE j \in hits : \A h \in hits : j <= h

Suffix(n) == " (" \o ToString(n) \o ")"

EndsWith(s, tail) ==
    Len(s) >= Len(tail) /\ SubSeq(s, Len(s) - Len(tail) + 1, Len(s)) = tail

HasEvent(e) == \E i \in 1..Len(events) : events[i] = e

SetsSlot(slot) == \E i \in 1..Len(events) : events[i].event = "slot" /\ events[i].name = slot

\* C3: when the count query fails (status >= 400) the slot question still completes
\* the turn: it does not abort and prompts with the slot's full static option list,
\* nothing removed, nothing annotated, nothing auto-applied.
C3_CountFailureFailsOpen ==
    (IsAsk /\ CountFailed) =>
        /\ ~raised
        /\ messages = <<Prompt(QuestionText(AskedSlot, latest_intent), Catalogue)>>
        /\ events = <<>>

\* C4: for every slot, when pruning leaves exactly one option no prompt is emitted,
\* the slot is set to the value that option's command encodes and
\* action_get_learning_recommendation is enqueued.
C4_OneOptionAutoApplied ==
    (Pruned /\ Len(buttons) = 1) =>
        /\ messages = <<>>
        /\ \E i \in 1..Len(events) :
              /\ events[i].event = "slot"
              /\ events[i].name = AskedSlot
              /\ events[i].value.t = "str"
              /\ buttons[1].payload # "/undecided" =>
                    buttons[1].payload
                      = "/inform{\"" \o AskedSlot \o "\":\"" \o events[i].value.v \o "\"}"
        /\ HasEvent(FollowupAction("action_get_learning_recommendation"))

\* C5: for every slot, when pruning leaves no option no prompt is emitted, the slot
\* is set to the "undecided" value and action_get_learning_recommendation is enqueued.
C5_NoOptionAutoApplied ==
    (Pruned /\ Len(buttons) = 0) =>
        /\ messages = <<>>
        /\ HasEvent(SlotSet(AskedSlot, PyStr("egal")))
        /\ HasEvent(FollowupAction("action_get_learning_recommendation"))

\* C6: pruning never adds options: the list after pruning is no longer than the
\* slot's static list and each of its options is one of the static list.
C6_PruningNeverAdds ==
    IsAsk =>
        /\ Len(buttons) <= Len(Catalogue)
        /\ \A i \in 1..Len(buttons) :
              \E j \in 1..Len(Catalogue) : buttons[i].payload = Catalogue[j].payload
        /\ \A i, j \in 1..Len(buttons) :
              buttons[i].payload = buttons[j].payload => i = j

C6_Witness ==
    /\ Pruned
    /\ AskedSlot = "topic"
    /\ Len(buttons) = 5
    /\ \E i \in 1..Len(buttons) : EndsWith(buttons[i].title, Suffix(1))

\* C7: for every key of "values" that matches a candidate option: with count 0 the
\* option is absent from the pruned list, with a count > 0 it is present and its
\* title ends with " (count)".
C7_ZeroRemovedPositiveAnnotated ==
    Pruned =>
        \A k \in 1..Len(Values) :
            MatchOf(Values[k].key) # 0 =>
                LET option == Catalogue[MatchOf(Values[k].key)]
                    count == Values[k].count
                    left == {i \in 1..Len(buttons) : buttons[i].payload = option.payload}
                IN /\ count = 0 => left = {}
                   /\ count > 0 =>
                         /\ left # {}
                         /\ \A i \in left : EndsWith(buttons[i].title, Suffix(count))

TitleOf(payload) ==
    Catalogue[CHOOSE j \in 1..Len(Catalogue) : Catalogue[j].payload = payload].title

\* C8: in one pruning pass no option's title gets more than one count suffix.
C8_AnnotatedAtMostOnce ==
    Pruned =>
        \A i \in 1..Len(buttons) :
            \/ buttons[i].title = TitleOf(buttons[i].payload)
            \/ \E n \in 0..(MaxCount + 1) :
                  buttons[i].title = TitleOf(buttons[i].payload) \o Suffix(n)

AllMatchedByValues ==
    \A j \in 1..Len(Catalogue) : \E k \in 1..Len(Values) : MatchOf(Values[k].key) = j

WithoutAlternatives ==
    PyDict([r.content.v EXCEPT !.has_alternatives = FALSE, !.alternatives = <<>>])

\* C9: when every candidate of the slot was matched by a key of "values", the
\* pruned list is the same whatever "alternatives" holds.
C9_AlternativesOnlyForUnmatched ==
    (Pruned /\ AllMatchedByValues) =>
        buttons = AddCountToButtonTitles(WithoutAlternatives, Catalogue).buttons

-----------------------------------------------------------------------------
(* Slot validation *)

IsValidate == pc = "ran" /\ \E slot \in FilterSlotNames : action = "validate_" \o slot

ValidatedSlot == CHOOSE slot \in FilterSlotNames : action = "validate_" \o slot

AllowList(slot) ==
    CASE slot = "language"     -> {"deutsch", "englisch", "egal"}
      [] slot = "topic"        -> {"ki-einführung", "ki-vertiefung", "ki-berufsfelder",
                                   "ki-gesellschaft", "data science",
                                   "maschinelles lernen", "egal"}
      [] slot = "level"        -> {"anfänger", "fortgeschritten", "experte"}
      [] slot = "max_duration" -> {"0", "10", "50", "51"}
      [] slot = "certificate"  -> {"teilnahmebescheinigung", "leistungsnachweis", "egal"}

Accepted == slot_value.t = "str" /\ Lower(slot_value.v) \in AllowList(ValidatedSlot)

Stored == IF Accepted THEN PyStr(Lower(slot_value.v)) ELSE PyNone

\* C10: a validator accepts a raw value exactly when its lower-cased form is in the
\* slot's allow-list and then stores the lower-cased value; for every other raw
\* value, an absent or empty one included, it stores unset.
C10_ValidatorStoresLowerCased ==
    /\ [](IsValidate => (~raised /\ events = <<SlotSet(ValidatedSlot, Stored)>>))
    /\ [][IsValidate => slots'[ValidatedSlot] = Stored]_vars

C10_Witness ==
    /\ IsValidate
    /\ ValidatedSlot = "topic"
    /\ slot_value = PyStr("KI-Einführung")
    /\ events = <<SlotSet("topic", PyStr("ki-einführung"))>>
    /\ slots["language"] = PyStr("englisch")

-----------------------------------------------------------------------------
(* Messages of the validators *)

KnownUnsupported ==
    {"spanisch", "französisch", "robotisch", "russisch", "slowakisch", "katalanisch",
     "tschechisch", "mandarin", "hindi", "niederländisch", "schwedisch", "holländisch"}

IsValidateLanguage == IsValidate /\ ValidatedSlot = "language"

Unsupported == slot_value.t = "str" /\ Lower(slot_value.v) \in KnownUnsupported

\* C11: validate_language emits no message for an accepted value; for a value whose
\* lower-cased form is a known unsupported language exactly one message, the
\* unsupported-language message naming that language; for every other invalid value
\* exactly one message, the generic clarification prompt; in both rejection cases
\* the slot is stored as unset.
C11_LanguageMessages ==
    IsValidateLanguage =>
        /\ Accepted => messages = <<>>
        /\ (~Accepted /\ Unsupported) =>
              /\ Len(messages) = 1
              /\ messages[1].response = "unsupported_language_selection"
              /\ Len(messages[1].args) = 1
              /\ Lower(messages[1].args[1]) = Lower(slot_value.v)
              /\ events = <<SlotSet("language", PyNone)>>
        /\ (~Accepted /\ ~Unsupported) =>
              /\ messages = <<Message("utter_interjection_languages", <<>>)>>
              /\ events = <<SlotSet("language", PyNone)>>

C11_Witness ==
    /\ IsValidateLanguage
    /\ slot_value = PyStr("spanisch")
    /\ messages = <<Message("unsupported_language_selection", <<"Spanisch">>)>>
    /\ slots["language"] = PyStr("englisch")

IsValidateOther == IsValidate /\ ValidatedSlot # "language"

Cleared == events = <<SlotSet(ValidatedSlot, PyNone)>>

\* C12: for every slot other than language (topic, level, max_duration,
\* certificate) an invalid value clears the slot and no message is emitted.
C12_OthersClearSilently ==
    (IsValidateOther /\ ~Accepted) => (Cleared /\ messages = <<>>)

\* C12, amended: for level, max_duration and certificate an invalid value clears the
\* slot and no message is emitted; for topic an invalid value clears the slot and
\* exactly one message is emitted, the utter_unavailable_topic response.
C12_OthersClearTopicSays ==
    (IsValidateOther /\ ~Accepted) =>
        /\ Cleared
        /\ ValidatedSlot # "topic" => messages = <<>>
        /\ ValidatedSlot = "topic" =>
              messages = <<Message("utter_unavailable_topic", <<>>)>>

C12_Witness ==
    /\ IsValidate
    /\ ValidatedSlot = "topic"
    /\ slot_value = PyStr("Klingonisch")
    /\ Cleared
    /\ Len(messages) = 1
    /\ slots["topic"] = PyStr("data science")

-----------------------------------------------------------------------------
(* Outcomes of the recommendation retrieval *)

IsRetrieval == pc = "ran" /\ action = "action_get_learning_recommendation"

OutcomeKeys ==
    {"no_recommendations_found", "found_recommendations", "found_recommendations_single",
     "error_401", "error_404", "error_500", "error_unknown"}

Outcomes == {i \in 1..Len(messages) : messages[i].response \in OutcomeKeys}

OnlyMessage(key) == messages = <<Message(key, <<>>)>>

\* C13: the retrieval classifies every HTTP status into one outcome with exactly one
\* outcome message: 200 with an empty list gives only no_recommendations_found (no
\* course item, no button); 401, 404 and 500 give three different error messages;
\* every other status, those below 400 included, gives the unknown-error message
\* carrying the text of the body.
C13_OneOutcomePerStatus ==
    IsRetrieval =>
        /\ Cardinality(Outcomes) = 1
        /\ \A i \in 1..Len(messages) : messages[i].buttons = <<>>
        /\ (r.status_code = 200 /\ r.content.v = <<>>) =>
              OnlyMessage("no_recommendations_found")
        /\ (r.status_code = 200 /\ r.content.v # <<>>) =>
              messages[1].response \in {"found_recommendations",
                                        "found_recommendations_single"}
        /\ r.status_code = 401 => OnlyMessage("error_401")
        /\ r.status_code = 404 => OnlyMessage("error_404")
        /\ r.status_code = 500 => OnlyMessage("error_500")
        /\ r.status_code \notin {200, 401, 404, 500} =>
              /\ Len(messages) = 1
              /\ messages[1].response = "error_unknown"
              /\ Len(messages[1].args) = 1
              /\ Contains(r.content.v, messages[1].args[1])

C13_Witness ==
    /\ IsRetrieval
    /\ r.status_code = 204
    /\ messages = <<Message("error_unknown", <<"b'error'">>)>>
    /\ events = <<SlotSet("recommendations", PyNone)>>

-----------------------------------------------------------------------------
(* The "more available" message *)

MoreSingle ==
    {"found_recommendations_more_single", "additional_recommendations_more_single"}

MoreMultiple ==
    {"found_recommendations_more_multiple", "additional_recommendations_more_multiple"}

MoreMessages ==
    {i \in 1..Len(messages) : messages[i].response \in MoreSingle \cup MoreMultiple}

PageShown ==
    /\ pc = "ran"
    /\ retrieved.t = "list"
    /\ action \in {"action_get_learning_recommendation",
                   "action_additional_learning_recommendation"}
    /\ ShownNames(messages) # <<>>

\* the items of the retrieved list not shown up to and including this page
Unseen == Len(retrieved.v) - Min(3 * (more_turns + 1), Len(retrieved.v))

\* C14: after each shown page (first or "show more") a "more available" message is
\* emitted iff at least one item has still not been shown; it is the last message,
\* reports the number of items not yet shown after that page, and is the singular
\* variant exactly when that number is 1.
C14_MoreCount ==
    PageShown =>
        /\ Unseen > 0 <=> MoreMessages # {}
        /\ MoreMessages \subseteq {Len(messages)}
        /\ Unseen > 0 =>
              /\ messages[Len(messages)].args = <<Unseen>>
              /\ Unseen = 1 <=> messages[Len(messages)].response \in MoreSingle

C14_Witness ==
    /\ PageShown
    /\ action = "action_additional_learning_recommendation"
    /\ Len(retrieved.v) = 7
    /\ more_turns = 1
    /\ messages[Len(messages)] = Message("additional_recommendations_more_single", <<1>>)

-----------------------------------------------------------------------------
(* Request parameters *)

Sent == pc = "ran" /\ request # <<>>

Params == request[1].params

\* C15: the filter parameter set always holds each of language, topic, level,
\* max_duration and certificate as a text; a slot without a value is passed as the
\* text "None", never left out and never passed as a null value.
C15_AbsentSlotsAsText ==
    (Sent /\ action = "action_get_learning_recommendation") =>
        \A s \in FilterSlotNames :
            /\ s \in DOMAIN Params
            /\ Params[s].t = "str"
            /\ slots[s] = PyNone => Params[s] = PyStr("None")

-----------------------------------------------------------------------------
(* The stored recommendations *)

Succeeded == IsRetrieval /\ r.status_code = 200

\* C16: on a successful retrieval (HTTP 200) the recommendations slot after the
\* turn is the complete response list in the order the service returned it, not
\* the page shown and not the remainder.
C16_FullListStored ==
    /\ [](Succeeded => events = <<SlotSet("recommendations", r.content)>>)
    /\ [][Succeeded => slots'["recommendations"] = r.content]_vars

C16_Witness ==
    /\ pc = "idle"
    /\ more_turns = 0
    /\ retrieved.t = "list"
    /\ Len(retrieved.v) = 7
    /\ slots["recommendations"] = retrieved
    /\ retrieved.v[1].name = "Kurs 2"
    /\ retrieved.v[7].name = "Kurs 8"

-----------------------------------------------------------------------------
(* The prompt of a slot question *)

ConfirmPhrasing ==
    [language     |-> "confirm_and_show_change_language",
     topic        |-> "confirm_and_show_change_topic",
     level        |-> "confirm_and_show_change_level",
     max_duration |-> "confirm_and_show_change_duration",
     certificate  |-> "confirm_and_show_change_certificate"]

DefaultPhrasing ==
    [language     |-> "ask_select_language",
     topic        |-> "ask_select_topic",
     level        |-> "ask_select_level",
     max_duration |-> "ask_select_duration",
     certificate  |-> "ask_select_certificate"]

ChangeRequested == latest_intent = "change_" \o AskedSlot \o "_slot"

CatalogueIndex(payload) ==
    CHOOSE j \in 1..Len(Catalogue) : Catalogue[j].payload = payload

\* C17: when at least two options remain after pruning, the controller emits exactly
\* one prompt whose buttons are the pruned, annotated options in catalogue order and
\* returns no slot change and no follow-up; the text is the "confirm change"
\* phrasing iff the latest intent is the change-request intent of that same slot,
\* otherwise the default phrasing.
C17_PromptWithPrunedOptions ==
    (Pruned /\ Len(buttons) >= 2) =>
        /\ Len(messages) = 1
        /\ messages[1].buttons = buttons
        /\ \A i, j \in 1..Len(buttons) :
              i < j => CatalogueIndex(buttons[i].payload) < CatalogueIndex(buttons[j].payload)
        /\ events = <<>>
        /\ messages[1].response
              = IF ChangeRequested THEN ConfirmPhrasing[AskedSlot]
                                   ELSE DefaultPhrasing[AskedSlot]

C17_Witness ==
    /\ Pruned
    /\ AskedSlot = "level"
    /\ latest_intent = "change_level_slot"
    /\ Len(buttons) = 2
    /\ Len(messages) = 1
    /\ messages[1].response = "confirm_and_show_change_level"
    /\ \E i \in 1..2 : EndsWith(buttons[i].title, Suffix(1))

FilterParams == CreateFilterRequestParams(slots)

\* C18: the count query for a slot sends the filter parameter set built from the
\* current slots with the value of the target slot replaced by "zaehle" and every
\* other parameter unchanged, and the query changes no slot.
C18_CountQueryParams ==
    /\ [](IsAsk =>
            /\ Len(request) = 1
            /\ request[1].url = "count_filtered_recommendation_learnings/"
            /\ DOMAIN Params = DOMAIN FilterParams
            /\ \A p \in DOMAIN Params :
                  Params[p] = IF p = AskedSlot THEN PyStr("zaehle") ELSE FilterParams[p])
    /\ [][(pc = "idle" /\ pc' = "ran" /\ request' # <<>>) => slots' = slots]_vars

C18_Witness ==
    /\ IsAsk
    /\ AskedSlot = "language"
    /\ slots["level"] = PyStr("anfänger")
    /\ slots["max_duration"] = PyStr("10")
    /\ Params["language"] = PyStr("zaehle")
    /\ Params["level"] = PyStr("anfänger")
    /\ Params["max_duration"] = PyStr("10")
    /\ Params["topic"] = PyStr("None")

-----------------------------------------------------------------------------
(* Course items *)

Items == SelectSeq(messages, IsCourseItem)

Family == IF action = "action_get_learning_recommendation" THEN "found" ELSE "additional"

\* the course the i-th item of this page shows
Shown(i) == retrieved.v[3 * more_turns + i]

\* C19: each shown recommendation is rendered with the with-code template (course
\* title and course code) when its course code is non-empty and with the
\* without-code template (course title and URL-encoded course title) when it is
\* empty, on the first page and on every "show more" page.
C19_TemplateByCourseCode ==
    PageShown =>
        \A i \in 1..Len(Items) :
            IF Shown(i).course_code # ""
            THEN Items[i] = Message(Family \o "_course_item",
                                    <<Shown(i).name, Shown(i).course_code>>)
            ELSE Items[i] = Message(Family \o "_course_item_without_code",
                                    <<Shown(i).name, QuotePlus(Shown(i).name)>>)

C19_Witness ==
    /\ PageShown
    /\ action = "action_additional_learning_recommendation"
    /\ Len(Items) = 3
    /\ Items[1] = Message("additional_course_item", <<"Kurs 4", "kurs-4">>)
    /\ Items[2] = Message("additional_course_item_without_code", <<"Kurs 5", "Kurs+5">>)

-----------------------------------------------------------------------------
(* Clearing slots *)

IsDelete == pc = "ran" /\ action = "action_delete_slot_value"

ClearedBy(intent, s) ==
    /\ s \in {"language", "topic", "level", "max_duration", "certificate"}
    /\ \/ intent = "change_" \o s \o "_slot"
       \/ intent = "start_recommender_form"

\* C20: a change-request intent for one slot clears exactly that slot and leaves the
\* other four filter slots as they are; start_recommender_form clears all five
\* filter slots; any other intent changes no slot.
C20_DeleteClearsExactly ==
    [][IsDelete =>
         \A s \in DOMAIN slots :
             slots'[s] = IF ClearedBy(latest_intent, s) THEN PyNone ELSE slots[s]]_vars

C20_Witness ==
    /\ IsDelete
    /\ latest_intent = "change_level_slot"
    /\ slots["level"] = PyStr("anfänger")
    /\ slots["language"] = PyStr("deutsch")
    /\ slots["topic"] = PyStr("data science")
    /\ events = <<SlotSet("level", PyNone)>>

-----------------------------------------------------------------------------
(* Outbound HTTP calls of one invocation *)

Urls == [i \in 1..Len(request) |-> request[i].url]

IsShowMore == pc = "ran" /\ action = "action_additional_learning_recommendation"

\* C21: one invocation of a slot question issues exactly one count query and no
\* recommendation query, one invocation of the retriever exactly one recommendation
\* query, a "show more" invocation no HTTP call; a failed call is not repeated
\* within the turn.
C21_CallsPerInvocation ==
    /\ IsAsk => Urls = <<"count_filtered_recommendation_learnings/">>
    /\ IsRetrieval => Urls = <<"filtered_recommendation_learnings/">>
    /\ IsShowMore => Urls = <<>>
    /\ (pc = "ran" /\ r.status_code >= 400) => Len(request) = 1

C21_Witness ==
    /\ IsRetrieval
    /\ latest_intent = "action_get_learning_recommendation"
    /\ slots["level"] = PyStr("egal")
    /\ r.status_code = 500
    /\ Len(request) = 1

-----------------------------------------------------------------------------
(* The auto-apply shortcut *)

Injected == {i \in 1..Len(events) : events[i].event = "user"}

AutoApplied == IsAsk /\ ~raised /\ Injected # {}

InformPrefix == "/inform{\"" \o AskedSlot \o "\":\""

\* the value a command of the form /inform{"<slot>":"<value>"} encodes
Encoded(payload) == SubSeq(payload, Len(InformPrefix) + 1, Len(payload) - 2)

\* C22: on the auto-apply path the controller injects one synthetic user command:
\* with one remaining option it is that option's payload /inform{"<slot>":"<value>"}
\* and the slot is set to exactly that <value>; with no remaining option it is the
\* bare /undecided and the slot is set to the undecided value.
C22_InjectedCommand ==
    /\ (Pruned /\ AskedSlot = "level" /\ Len(buttons) <= 1) => AutoApplied
    /\ AutoApplied =>
          /\ Injected = {1}
          /\ Len(buttons) <= 1
          /\ Len(buttons) = 1 =>
                /\ events[1].text = buttons[1].payload
                /\ buttons[1].payload = InformPrefix \o Encoded(buttons[1].payload) \o "\"}"
                /\ \A i \in 1..Len(events) :
                      events[i].event = "slot" =>
                          events[i] = SlotSet(AskedSlot, PyStr(Encoded(buttons[1].payload)))
                /\ SetsSlot(AskedSlot)
          /\ Len(buttons) = 0 =>
                /\ events[1].text = "/undecided"
                /\ \A i \in 1..Len(events) :
                      events[i].event = "slot" => events[i] = SlotSet(AskedSlot, PyStr("egal"))
                /\ SetsSlot(AskedSlot)

C22_Witness ==
    /\ AutoApplied
    /\ buttons = <<Button("level_option_expert (1)", "/inform{\"level\":\"Experte\"}")>>
    /\ events[1] = UserUttered("/inform{\"level\":\"Experte\"}",
                               "action_get_learning_recommendation")
    /\ events[2] = SlotSet("level", PyStr("Experte"))

-----------------------------------------------------------------------------
(* The enrollments parameter *)

Profile == slots["enrollments"]

HasCode(course) == "course_code" \in DOMAIN course

\* C23: the enrollments parameter is the list of the course-code fields of the
\* profile's enrolled courses in profile order; an entry without a course-code field
\* does not abort the assembly of the parameters and keeps its place in the list; an
\* absent or empty enrollment list is passed through unchanged.
C23_EnrollmentsParameter ==
    IsRetrieval =>
        /\ ~raised
        /\ Len(request) = 1
        /\ ~Truthy(Profile) => Params.enrollments = Profile
        /\ Truthy(Profile) =>
              /\ Params.enrollments.t = "list"
              /\ Len(Params.enrollments.v) = Len(Profile.v)
              /\ \A i \in 1..Len(Profile.v) :
                    HasCode(Profile.v[i]) =>
                        Params.enrollments.v[i] = Profile.v[i].course_code

-----------------------------------------------------------------------------
(* Slot values *)

Acceptable(s, value) ==
    \/ value = PyNone
    \/ value.t = "str" /\ value.v \in AllowList(s)

\* C24: after any sequence of turns every filter slot is unset or holds a
\* lower-cased member of its validator's allow-list; a value written by the
\* auto-apply shortcut is one the validator would accept unchanged.
C24_SlotsHoldAllowedValues ==
    \A s \in FilterSlotNames : Acceptable(s, slots[s])

-----------------------------------------------------------------------------
(* The stored list while paging *)

Stored_recommendations == slots["recommendations"]

\* the "show more" turns since the retrieval that showed a page
PagesTurned ==
    Min(more_turns,
        IF Len(retrieved.v) = 0 THEN 0 ELSE (Len(retrieved.v) - 1) \div 3)

\* C25: after a successful retrieval and any number of "show more" turns the stored
\* recommendations are the suffix of the retrieved list that begins at the first
\* item of the page shown last: each non-terminal "show more" drops exactly the 3
\* leading items, nothing is reordered, duplicated or inserted.
C25_StoredIsSuffix ==
    /\ []((pc = "idle" /\ retrieved.t = "list") =>
            Stored_recommendations
              = PyList(SubSeq(retrieved.v, 3 * PagesTurned + 1, Len(retrieved.v))))
    /\ [][(IsShowMore /\ ~AtMostOnePage(Stored_recommendations)) =>
            slots'["recommendations"]
              = PyList(SubSeq(Stored_recommendations.v, 4,
                              Len(Stored_recommendations.v)))]_vars

C25_Witness ==
    /\ pc = "idle"
    /\ retrieved.t = "list"
    /\ Len(retrieved.v) = 7
    /\ more_turns = 2
    /\ Stored_recommendations = PyList(<<retrieved.v[7]>>)

-----------------------------------------------------------------------------
(* Paging ends *)

Terminal == IsShowMore /\ messages = NoMoreOnly

\* C26: from any stored list of n recommendations, repeated "show more" turns with
\* no new retrieval in between reach the "no more recommendations" state: every
\* "show more" that shows items strictly shortens the stored list, and at most
\* ceil(n/3) - 1 of them show items before the terminal state.
C26_PagingTerminates ==
    /\ Succeeded ~> Terminal
    /\ []((IsShowMore /\ retrieved.t = "list" /\ ShownNames(messages) # <<>>) =>
            /\ Len(retrieved.v) > 0
            /\ more_turns <= (Len(retrieved.v) + 2) \div 3 - 1)
    /\ [][(IsShowMore /\ ~AtMostOnePage(Stored_recommendations)) =>
            Len(slots'["recommendations"].v) < Len(Stored_recommendations.v)]_vars

C26_Witness ==
    /\ Terminal
    /\ retrieved.t = "list"
    /\ Len(retrieved.v) = 7
    /\ more_turns = 3
    /\ Stored_recommendations = PyList(<<retrieved.v[7]>>)

-----------------------------------------------------------------------------
(* Retrieval without a list *)

Failed == IsRetrieval /\ ~raised /\ r.status_code # 200

EmptyResult == IsRetrieval /\ r.status_code = 200 /\ r.content.v = <<>>

\* C27: a retrieval that ends with any status other than 200 overwrites the stored
\* recommendations with null, discarding a list stored by an earlier retrieval, and
\* one that ends with the empty result stores the empty list; an immediately
\* following "show more" then emits only "no more recommendations".
C27_FailureDiscardsList ==
    /\ [](Failed => events = <<SlotSet("recommendations", PyNone)>>)
    /\ [][Failed => slots'["recommendations"] = PyNone]_vars
    /\ [][EmptyResult => slots'["recommendations"] = PyList(<<>>)]_vars
    /\ []((IsShowMore /\ more_turns = 1 /\ retrieved \in {PyNone, PyList(<<>>)}) =>
            /\ Stored_recommendations = retrieved
            /\ messages = NoMoreOnly)

C27_Witness ==
    /\ Failed
    /\ r.status_code = 404
    /\ Stored_recommendations.t = "list"
    /\ Len(Stored_recommendations.v) = 7
    /\ events = <<SlotSet("recommendations", PyNone)>>

-----------------------------------------------------------------------------
(* What pruning leaves alone *)

Alternatives == r.content.v.alternatives

\* no key of "values" and no key of "alternatives" occurs in the option's command
Unmatched(option) ==
    /\ \A k \in 1..Len(Values) :
          ~InPayload(PayloadField(Values[k].key), option.payload)
    /\ \A k \in 1..Len(Alternatives) :
          ~InPayload(Alternatives[k].key, option.payload)

\* C28: pruning keeps the surviving options in their catalogue order and never
\* changes an option's payload; a candidate matched by no key of "values" and no key
\* of "alternatives" stays in the list with its title unchanged.
C28_PruningFrame ==
    Pruned =>
        /\ \A i \in 1..Len(buttons) :
              \E j \in 1..Len(Catalogue) : buttons[i].payload = Catalogue[j].payload
        /\ \A i, j \in 1..Len(buttons) :
              i < j => CatalogueIndex(buttons[i].payload) < CatalogueIndex(buttons[j].payload)
        /\ \A j \in 1..Len(Catalogue) :
              Unmatched(Catalogue[j]) =>
                  \E i \in 1..Len(buttons) : buttons[i] = Catalogue[j]

C28_Witness ==
    /\ Pruned
    /\ AskedSlot = "max_duration"
    /\ Unmatched(Catalogue[1])
    /\ Len(buttons) = 2
    /\ buttons[1] = Catalogue[1]
    /\ buttons[2].payload = Catalogue[3].payload
    /\ buttons[2].title # Catalogue[3].title

====
